---- MODULE Spec2Model ----
(***************************************************************************)
(* Model of aiida_wannier90.workflows.minimal_workgraph:                   *)
(*   get_explicit_kpoints   (minimal_workgraph.py lines 15-21)             *)
(*   minimal_w90_workgraph  (minimal_workgraph.py lines 24-238)            *)
(*                                                                         *)
(* Python dictionaries are functions whose domain is the set of keys.  The  *)
(* dictionaries of the inputs tree are objects of a heap: a dictionary     *)
(* that holds another holds its address, so that one object reachable      *)
(* along two paths is changed along both when the code writes into it.     *)
(* One call of minimal_w90_workgraph is followed statement block by        *)
(* statement block; pc is the position inside the function body.  The      *)
(* arguments of the call are chosen in Init.  Floating point cutoffs are   *)
(* whole numbers here (30.0 is 30, 240.0 is 240); a mesh offset component  *)
(* counts half grid steps (0 is 0.0, 1 is 0.5).                            *)
(***************************************************************************)
EXTENDS Integers, Sequences, FiniteSets, TLC

\* Largest number of k-points along one axis of a mesh the caller passes.
MaxMesh == 2

(***************************************************************************)
(* Dictionaries                                                            *)
(***************************************************************************)
EmptyDict == [k \in {} |-> 0]

Has(d, k) == k \in DOMAIN d

\* dict.get(k, default)
Get(d, k, default) == IF k \in DOMAIN d THEN d[k] ELSE default

\* d[k] = v
Put(d, k, v) == [x \in (DOMAIN d) \cup {k} |-> IF x = k THEN v ELSE d[x]]

\* d.update(e): the keys of e replace or extend those of d, one level deep
Update(d, e) ==
  [x \in (DOMAIN d) \cup (DOMAIN e) |-> IF x \in DOMAIN e THEN e[x] ELSE d[x]]

\* deepcopy(d): dictionaries are values here, a copy has the same contents
deepcopy(d) == d

(***************************************************************************)
(* The heap of dictionary objects of the inputs tree.  An address is an    *)
(* index of the heap.  Under the keys RefKeys a dictionary holds the       *)
(* address of another dictionary; under every other key it holds data the  *)
(* code only reads (k-points, metadata, a list, a number, a string).       *)
(***************************************************************************)
RefKeys ==
  {"scf", "nscf", "pw2wannier90", "wannier90", "parameters", "settings",
   "CONTROL", "SYSTEM"}

\* the nested contents of the object at address a
RECURSIVE Value(_, _)
Value(h, a) ==
  [k \in DOMAIN h[a] |-> IF k \in RefKeys THEN Value(h, h[a][k]) ELSE h[a][k]]

\* the addresses of the object at a and of every object it holds
RECURSIVE Objects(_, _)
Objects(h, a) ==
  {a} \cup UNION {Objects(h, h[a][k]) : k \in (DOMAIN h[a]) \cap RefKeys}

\* d[k] = v on the object at a
SetItem(h, a, k, v) == [h EXCEPT ![a] = Put(@, k, v)]

\* d.update(e) on the object at a
UpdateObject(h, a, e) == [h EXCEPT ![a] = Update(@, e)]

\* a new dictionary with the contents d; its address is Len(h) + 1
New(h, d) == Append(h, d)

\* if k not in d.keys(): d[k] = {}     on the object at a
EnsureDict(h, a, k) ==
  IF Has(h[a], k) THEN h ELSE SetItem(New(h, EmptyDict), a, k, Len(h) + 1)

\* The objects of a tree given by its nested contents, every dictionary an
\* object of its own: <<heap, address of the tree>>.
RECURSIVE Alloc(_, _)
RECURSIVE AllocKeys(_, _, _, _)
AllocKeys(h, v, keys, obj) ==
  IF keys = {} THEN <<New(h, obj), Len(h) + 1>>
  ELSE LET k == CHOOSE x \in keys : TRUE
           r == Alloc(h, v[k])
       IN  AllocKeys(r[1], v, keys \ {k}, Put(obj, k, r[2]))

Alloc(h, v) ==
  AllocKeys(h, v, (DOMAIN v) \cap RefKeys, [k \in (DOMAIN v) \ RefKeys |-> v[k]])

(***************************************************************************)
(* orm.KpointsData: a mesh descriptor (mesh, offset), an explicit list, or  *)
(* a node on which neither has been set                                    *)
(***************************************************************************)
KpointsMesh(mesh, offset) ==
  [kind |-> "mesh", mesh |-> mesh, offset |-> offset, points |-> <<>>]

KpointsList(points) ==
  [kind |-> "list", mesh |-> <<>>, offset |-> <<>>, points |-> points]

\* orm.KpointsData() on which neither a mesh nor a list has been set
KpointsEmpty == [kind |-> "empty", mesh |-> <<>>, offset |-> <<>>, points |-> <<>>]

\* the local nscf_kpoints = None of line 96
NoKpoints == [kind |-> "none", mesh |-> <<>>, offset |-> <<>>, points |-> <<>>]

\* kpoints.get_kpoints() raises AttributeError unless an explicit list is set
get_kpoints_raises(kpoints) == kpoints.kind # "list"

\* kpoints.get_kpoints_mesh() raises AttributeError unless a mesh is set
get_kpoints_mesh_raises(kpoints) == kpoints.kind # "mesh"

\* kpoints.get_kpoints_mesh() -> (mesh, offset)
get_kpoints_mesh(kpoints) == <<kpoints.mesh, kpoints.offset>>

\* One coordinate (i + offset) / n of a mesh point, as the unreduced
\* fraction <<2 i + o, 2 n>>, o counting half steps.
Coord(i, o, n) == <<2 * i + o, 2 * n>>

RECURSIVE Flatten(_)
Flatten(ss) == IF ss = <<>> THEN <<>> ELSE Head(ss) \o Flatten(Tail(ss))

\* kpoints.get_kpoints_mesh(print_list=True): every point of the grid, the
\* last index running fastest.
get_kpoints_mesh_list(kpoints) ==
  LET m == kpoints.mesh
      o == kpoints.offset
  IN  Flatten([i \in 1..m[1] |->
        Flatten([j \in 1..m[2] |->
          [k \in 1..m[3] |->
            <<Coord(i - 1, o[1], m[1]),
              Coord(j - 1, o[2], m[2]),
              Coord(k - 1, o[3], m[3])>>]])])

\* A conversion that hands the mesh descriptor back unconverted.
get_explicit_kpoints_identity(kpoints) == kpoints

\* get_explicit_kpoints: a new KpointsData holding the explicit list
get_explicit_kpoints(kpoints) == KpointsList(get_kpoints_mesh_list(kpoints))

(***************************************************************************)
(* Resource templates, lines 44-57                                         *)
(***************************************************************************)
metadata_default_mpi ==
  [options |-> [resources |-> [num_machines |-> 2],
                max_wallclock_seconds |-> 60 * 60 * 12,
                withmpi |-> TRUE]]

metadata_default_no_mpi ==
  [options |-> [resources |-> [num_machines |-> 1],
                max_wallclock_seconds |-> 60 * 60 * 12,
                withmpi |-> FALSE]]

(***************************************************************************)
(* Code references: a string label, or the object orm.load_code resolves   *)
(* it to.  The labels and the pseudopotential families of the database the *)
(* call runs against are fixed; the arguments vary.                        *)
(***************************************************************************)
CodeStr(label) == [kind |-> "str", label |-> label]
CodeObj(label) == [kind |-> "code", label |-> label]

\* isinstance(v, str)
IsStr(v) == v.kind = "str"

Roles == {"pw", "pw2wannier90", "wannier90"}

\* the labels of the codes stored in the database
KnownCodeLabels == Roles

\* orm.load_code(label) raises NotExistent for a label the database lacks
load_code_raises(v) == v.label \notin KnownCodeLabels

\* orm.load_code(label) for a label the database holds
load_code(v) == CodeObj(v.label)

\* codes.items() of line 37 yields the entries in the insertion order of
\* the caller's dictionary: order is the sequence of its keys.  Assigning
\* to a key the dictionary holds (line 39) leaves the order as it is.
\* The position in order of the first entry whose load_code raises, 0 when
\* every string entry resolves:
FailingEntry(c, order) ==
  LET bad == {i \in 1..Len(order) :
                IsStr(c[order[i]]) /\ load_code_raises(c[order[i]])}
  IN  IF bad = {} THEN 0 ELSE CHOOSE i \in bad : \A j \in bad : i <= j

\* the position of key k in codes.items()
OrderOf(order, k) == CHOOSE i \in 1..Len(order) : order[i] = k

\* the families the database holds, and those of them that have a
\* pseudopotential for every element of the structure
KnownFamilies == {"SSSP/1.3/PBE/efficiency", "partial"}
CoveringFamilies == {"SSSP/1.3/PBE/efficiency"}

\* orm.load_group(pseudo_family) raises NotExistent for an unknown group
load_group_raises(family) == family \notin KnownFamilies

\* pseudo_family.get_pseudos(structure=structure) raises ValueError when the
\* family lacks an element of the structure
get_pseudos_raises(family) == family \notin CoveringFamilies

\* A resolution into a copy, which leaves the caller's dictionary alone.
NormalizeCodes_local(c, order) == c

\* lines 37-39: every string entry of codes is replaced by its code object,
\* up to the first entry whose load_code raises
NormalizeCodes(c, order) ==
  [k \in DOMAIN c |->
     IF IsStr(c[k]) /\ (FailingEntry(c, order) = 0
                          \/ OrderOf(order, k) < FailingEntry(c, order))
     THEN load_code(c[k])
     ELSE c[k]]

(***************************************************************************)
(* Exceptions: the type raised and the source line that raises it          *)
(***************************************************************************)
NoError == [type |-> "", line |-> 0]
Error(type, line) == [type |-> type, line |-> line]

\* lines 37-42: the exception the resolution of the codes and of the
\* pseudopotential family raises, if any
LookupError(c, order, family) ==
  IF FailingEntry(c, order) # 0 THEN Error("NotExistent", 39)
  ELSE IF load_group_raises(family) THEN Error("NotExistent", 41)
  ELSE IF get_pseudos_raises(family) THEN Error("ValueError", 42)
  ELSE NoError

\* codes[role] in the dictionary a task is set from: the KeyError of a role
\* the caller did not give
CodeKeyError(c, role, line) ==
  IF role \in DOMAIN c THEN NoError ELSE Error("KeyError", line)

(***************************************************************************)
(* scf stage, lines 60-87                                                  *)
(***************************************************************************)
\* line 71: the wavefunction cutoff used when the caller gives none
DefaultEcutwfc == 30

\* line 72: the density cutoff is this many times a wavefunction cutoff
EcutrhoFactor == 8

\* line 71
ScfEcutwfc(system) == Get(system, "ecutwfc", DefaultEcutwfc)

\* line 72: computed from the ecutwfc entry, whatever ecutrho the caller gave
ScfEcutrho(system) == Get(system, "ecutwfc", DefaultEcutwfc) * EcutrhoFactor



\* lines 62-84 on the dictionary objects reachable from inputs (at root)
ScfDefaults(h, root) ==
  LET h1 == EnsureDict(h, root, "scf")
      scf == h1[root]["scf"]
      h2 == EnsureDict(h1, scf, "parameters")
      par == h2[scf]["parameters"]
      h3 == EnsureDict(h2, par, "CONTROL")
      h4 == EnsureDict(h3, par, "SYSTEM")
      system == h4[h4[par]["SYSTEM"]]
      cutoffs == [ecutwfc |-> ScfEcutwfc(system), ecutrho |-> ScfEcutrho(system)]
      h5 == UpdateObject(h4, h4[par]["CONTROL"], [calculation |-> "scf"])
  IN  UpdateObject(h5, h5[par]["SYSTEM"], cutoffs)

\* lines 86-87, 127-128, 151-152, 172-173: the template, updated by the
\* metadata of the stage's section
MergeMetadata(template, section) ==
  Update(deepcopy(template), Get(section, "metadata", EmptyDict))

(***************************************************************************)
(* nscf stage, lines 90-128                                                *)
(***************************************************************************)
\* A validation that lets a shifted mesh through.
NscfValidate_no_shift_check(inp) ==
  IF ~Has(inp, "nscf") THEN Error("AssertionError", 90)
  ELSE IF ~Has(inp["nscf"], "kpoints") THEN Error("AssertionError", 93)
  ELSE IF ~get_kpoints_raises(inp["nscf"]["kpoints"]) THEN Error("ValueError", 99)
  ELSE IF get_kpoints_mesh_raises(inp["nscf"]["kpoints"])
       THEN Error("AttributeError", 104)
  ELSE NoError

\* lines 90-108: the exception the nscf k-point validation raises, if any.
\* get_kpoints() of line 98 raises AttributeError unless a list is set, and
\* the handler's get_kpoints_mesh() of line 104 raises it unless a mesh is.
NscfValidate(inp) ==
  IF ~Has(inp, "nscf") THEN Error("AssertionError", 90)
  ELSE IF ~Has(inp["nscf"], "kpoints") THEN Error("AssertionError", 93)
  ELSE IF ~get_kpoints_raises(inp["nscf"]["kpoints"]) THEN Error("ValueError", 99)
  ELSE IF get_kpoints_mesh_raises(inp["nscf"]["kpoints"])
       THEN Error("AttributeError", 104)
  ELSE IF get_kpoints_mesh(inp["nscf"]["kpoints"])[2] # <<0, 0, 0>>
       THEN Error("AssertionError", 104)
  ELSE NoError

\* lines 111-124 on the dictionary objects reachable from inputs (at root)
NscfDefaults(h, root) ==
  LET nscf == h[root]["nscf"]
      h1 == EnsureDict(h, nscf, "parameters")
      par == h1[nscf]["parameters"]
      h2 == EnsureDict(h1, par, "CONTROL")
      scfpar == h2[h2[root]["scf"]]["parameters"]
      h3 == IF ~Has(h2[scfpar], "SYSTEM")
            THEN SetItem(New(h2, deepcopy(h2[h2[scfpar]["SYSTEM"]])),
                         par, "SYSTEM", Len(h2) + 1)
            ELSE h2
  IN  UpdateObject(h3, h3[par]["CONTROL"], [calculation |-> "nscf"])

(***************************************************************************)
(* pw2wannier90 stage, lines 130-152                                       *)
(***************************************************************************)
pw2wannier_parameters_default ==
  [inputpp |-> [write_amn |-> TRUE, write_unk |-> TRUE, write_mmn |-> TRUE]]

\* line 144: the patterns of the overlap files
RetrievePatterns == <<"*.amn", "*.mmn", "*.eig">>

\* lines 142-145: the settings dictionary after .update(...); the
\* ADDITIONAL_RETRIEVE_LIST entry is set to the three patterns
Pw2wannierSettings(section) ==
  Update(Get(section, "settings", EmptyDict),
         [ADDITIONAL_RETRIEVE_LIST |-> RetrievePatterns])

\* lines 140-145 on the dictionary objects reachable from inputs (at root):
\* the section is created when absent, and a settings dictionary of the
\* caller is the very object that is updated
Pw2wanDefaults(h, root) ==
  LET h1 == EnsureDict(h, root, "pw2wannier90")
      sec == h1[root]["pw2wannier90"]
  IN  IF Has(h1[sec], "settings")
      THEN UpdateObject(h1, h1[sec]["settings"],
                        [ADDITIONAL_RETRIEVE_LIST |-> RetrievePatterns])
      ELSE h1

\* lines 146-149
Pw2wannier90Params(section) ==
  LET params == deepcopy(Get(section, "parameters", EmptyDict))
      inputpp == Update(deepcopy(pw2wannier_parameters_default["inputpp"]),
                        Get(params, "inputpp", EmptyDict))
  IN  Put(params, "inputpp", inputpp)

(***************************************************************************)
(* wannier90 stage, lines 154-173                                          *)
(***************************************************************************)
\* lines 155-156 on the dictionary objects reachable from inputs (at root)
W90Defaults(h, root) == EnsureDict(h, root, "wannier90")

\* Defaults whose mp_grid is read from the offset of the mesh.
w90_params_default_offset(inp) ==
  [mp_grid |-> get_kpoints_mesh(inp["nscf"]["kpoints"])[2],
   write_hr |-> FALSE,
   write_xyz |-> FALSE,
   use_ws_distance |-> TRUE,
   bands_plot |-> TRUE,
   num_iter |-> 200,
   guiding_centres |-> FALSE,
   num_wann |-> 4,
   exclude_bands |-> <<1, 2, 3, 4, 5>>]

\* lines 158-168
w90_params_default(inp) ==
  [mp_grid |-> get_kpoints_mesh(inp["nscf"]["kpoints"])[1],
   write_hr |-> FALSE,
   write_xyz |-> FALSE,
   use_ws_distance |-> TRUE,
   bands_plot |-> TRUE,
   num_iter |-> 200,
   guiding_centres |-> FALSE,
   num_wann |-> 4,
   exclude_bands |-> <<1, 2, 3, 4, 5>>]

\* lines 169-170
W90Params(inp) ==
  Update(deepcopy(w90_params_default(inp)),
         Get(inp["wannier90"], "parameters", EmptyDict))

(***************************************************************************)
(* The WorkGraph: its tasks in the order they were added, each with the    *)
(* data bound to its input sockets, and the links between sockets          *)
(***************************************************************************)
NoGraph == [created |-> FALSE, tasks |-> <<>>, links |-> {}]

\* WorkGraph("Minimal Wannier90 workchain"), line 175
NewGraph == [created |-> TRUE, tasks |-> <<>>, links |-> {}]

Link(from, output, to, input) ==
  [from |-> from, output |-> output, to |-> to, input |-> input]

\* wg.add_task(calc, name=name): a task without inputs yet
add_task(g, calc, name) ==
  [g EXCEPT !.tasks = Append(@, [name |-> name, calc |-> calc, inputs |-> EmptyDict])]

\* task.set({...}) on the task added last: data is bound to the sockets, a
\* socket of another task given as a value becomes a link
set_inputs(g, data, links) ==
  [g EXCEPT !.tasks[Len(g.tasks)].inputs = data,
            !.links = @ \cup links]

TaskNames(g) == {g.tasks[i].name : i \in 1..Len(g.tasks)}

\* the inputs bound to the task called name
TaskInputs(g, name) ==
  (CHOOSE t \in {g.tasks[i] : i \in 1..Len(g.tasks)} : t.name = name).inputs

(***************************************************************************)
(* The arguments a caller may pass                                         *)
(***************************************************************************)
\* the structure argument, and pseudo_family.get_pseudos(structure) of line 42
Structure == "structure"
Pseudos == "pseudos"

CallerOptions ==
  [options |-> [resources |-> [num_machines |-> 4],
                max_wallclock_seconds |-> 60 * 60,
                withmpi |-> TRUE]]

CallerLabel == [label |-> "mine"]

\* codes for all three roles, every label in the database
CodesOptions ==
  { [r \in Roles |-> CodeStr(r)],
    [r \in Roles |-> IF r = "pw" THEN CodeStr(r) ELSE CodeObj(r)] }

\* codes with one or two labels the database lacks, or without one of the
\* roles
FaultyCodes ==
  { [r \in Roles |-> IF r = "pw2wannier90" THEN CodeStr("nowhere") ELSE CodeStr(r)],
    [r \in Roles |-> IF r = "wannier90" THEN CodeStr("nowhere") ELSE CodeStr(r)],
    [r \in Roles |-> IF r = "pw" THEN CodeStr("missing")
                      ELSE IF r = "wannier90" THEN CodeStr("nowhere")
                      ELSE CodeObj(r)],
    [r \in {"pw", "wannier90"} |->
       IF r = "pw" THEN CodeStr("missing") ELSE CodeStr("nowhere")] }
    \cup {[r \in Roles \ {x} |-> CodeStr(r)] : x \in Roles}

\* the order in which the example script inserts the roles
ExampleOrder == <<"pw", "pw2wannier90", "wannier90">>

\* the orders in which a caller may have inserted the keys S
RECURSIVE Orders(_)
Orders(S) ==
  IF S = {} THEN {<<>>}
  ELSE UNION {{<<k>> \o o : o \in Orders(S \ {k})} : k \in S}

\* the pseudo_family argument: the family of the example script, a family
\* without every element of the structure, a name the database lacks
PseudoFamily == "SSSP/1.3/PBE/efficiency"
PseudoFamilies == {PseudoFamily, "partial", "nowhere"}

\* the mesh of the example script, kpoints_mesh.set_kpoints_mesh([2, 2, 2])
ScfKpoints == KpointsMesh(<<2, 2, 2>>, <<0, 0, 0>>)

ScfSections ==
  { EmptyDict,
    [kpoints |-> ScfKpoints],
    [kpoints |-> ScfKpoints, parameters |-> [SYSTEM |-> [ecutwfc |-> 40]]],
    [kpoints |-> ScfKpoints,
     parameters |-> [SYSTEM |-> [ecutrho |-> 200, nbnd |-> 10]],
     metadata |-> CallerOptions],
    [kpoints |-> ScfKpoints,
     parameters |-> [CONTROL |-> [calculation |-> "relax"],
                     SYSTEM |-> [ecutwfc |-> 40, ecutrho |-> 200]],
     metadata |-> CallerLabel],
    [kpoints |-> ScfKpoints, parameters |-> EmptyDict] }

MeshDims == {<<a, b, c>> : a \in 1..MaxMesh, b \in 1..MaxMesh, c \in 1..MaxMesh}

Offsets == {<<0, 0, 0>>, <<1, 0, 0>>, <<0, 1, 0>>, <<0, 0, 1>>, <<1, 1, 1>>}

Gamma == <<Coord(0, 0, 1), Coord(0, 0, 1), Coord(0, 0, 1)>>

NscfKpoints ==
  {KpointsMesh(d, o) : d \in MeshDims, o \in Offsets}
    \cup {KpointsEmpty, KpointsList(<<Gamma>>),
          KpointsList(get_kpoints_mesh_list(KpointsMesh(<<1, 1, 2>>, <<0, 0, 0>>)))}

NscfExtras ==
  { EmptyDict,
    [parameters |-> [CONTROL |-> [verbosity |-> "high"]]],
    [parameters |-> [SYSTEM |-> [ecutwfc |-> 50]], metadata |-> CallerOptions] }

\* the k-points every one of NscfExtras is combined with: the mesh of the
\* example, a shifted mesh and a list
NscfBaseKpoints ==
  {ScfKpoints, KpointsMesh(<<2, 2, 2>>, <<1, 1, 1>>), KpointsList(<<Gamma>>)}

NscfSections ==
  NscfExtras \cup {Put(EmptyDict, "kpoints", k) : k \in NscfKpoints}
    \cup {Put(x, "kpoints", k) : x \in NscfExtras, k \in NscfBaseKpoints}

Pw2wanSections ==
  { EmptyDict,
    [settings |-> [ADDITIONAL_RETRIEVE_LIST |-> <<"*.xml">>]],
    [settings |-> [CMDLINE |-> <<"-nk", "2">>], metadata |-> CallerOptions],
    [settings |-> [ADDITIONAL_RETRIEVE_LIST |-> <<"*.amn", "aiida.out">>],
     parameters |-> [inputpp |-> [write_unk |-> FALSE]]] }

W90Sections ==
  { EmptyDict,
    [kpoint_path |-> "kpath", projections |-> "sp3"],
    [kpoint_path |-> "kpath"],
    [kpoint_path |-> "kpath", projections |-> "sp3",
     parameters |-> [num_wann |-> 8], metadata |-> CallerOptions],
    [kpoint_path |-> "kpath", projections |-> "sp3",
     parameters |-> [mp_grid |-> <<4, 4, 4>>], metadata |-> CallerLabel] }

\* a section, or its absence from the tree
Trees(name, sections) ==
  {EmptyDict} \cup {[k \in {name} |-> x] : x \in sections}

\* the wannier90 section that holds exactly the two entries looked up
\* without a default
W90Required == [kpoint_path |-> "kpath", projections |-> "sp3"]

\* the pw2wannier90 and wannier90 sections of a tree: each varies while the
\* other is absent or is W90Required
DownstreamTrees ==
  {Update(c, d) : c \in {EmptyDict}, d \in Trees("wannier90", W90Sections)}
    \cup {Update(c, d) : c \in Trees("pw2wannier90", Pw2wanSections),
                          d \in Trees("wannier90", {W90Required})}

InputsTrees ==
  {Update(Update(a, b), d) :
     a \in Trees("scf", ScfSections), b \in Trees("nscf", NscfSections),
     d \in DownstreamTrees}

\* the tree v as objects of its own, none of them shared
Unshared(v) ==
  LET r == Alloc(<<>>, v) IN [heap |-> r[1], root |-> r[2]]

\* The caller puts one dictionary object in two places of the tree.
\* ShareSection: the root, which has no scf key, gets the nscf section under
\* scf as well.  ShareKey: the object `to`, which has no key k, gets under k
\* the object that `from` holds under k.
ShareSection(t) == [t EXCEPT !.heap = SetItem(@, t.root, "scf", t.heap[t.root]["nscf"])]

ShareKey(t, k, from, to) == [t EXCEPT !.heap = SetItem(@, to, k, t.heap[from][k])]

ScfOf(t) == t.heap[t.root]["scf"]
NscfOf(t) == t.heap[t.root]["nscf"]

UnsharedTrees == {Unshared(v) : v \in InputsTrees}

\* inputs['scf'] is inputs['nscf']
SharedSections ==
  {ShareSection(t) :
     t \in {u \in UnsharedTrees :
              /\ ~Has(u.heap[u.root], "scf")
              /\ Has(u.heap[u.root], "nscf")}}

BothSections == {u \in UnsharedTrees : {"scf", "nscf"} \subseteq DOMAIN u.heap[u.root]}

\* inputs['scf']['parameters'] is inputs['nscf']['parameters']
SharedParameters ==
  {ShareKey(t, "parameters", NscfOf(t), ScfOf(t)) :
     t \in {u \in BothSections :
              /\ ~Has(u.heap[ScfOf(u)], "parameters")
              /\ Has(u.heap[NscfOf(u)], "parameters")}}

BothParameters ==
  {u \in BothSections :
     /\ Has(u.heap[ScfOf(u)], "parameters")
     /\ Has(u.heap[NscfOf(u)], "parameters")}

\* inputs['scf']['parameters'][k] is inputs['nscf']['parameters'][k]
SharedNamelist(k) ==
  {ShareKey(t, k, t.heap[NscfOf(t)]["parameters"], t.heap[ScfOf(t)]["parameters"]) :
     t \in {u \in BothParameters :
              /\ ~Has(u.heap[u.heap[ScfOf(u)]["parameters"]], k)
              /\ Has(u.heap[u.heap[NscfOf(u)]["parameters"]], k)}}

\* the trees of dictionary objects a caller may pass
HeapTrees ==
  UnsharedTrees \cup SharedSections \cup SharedParameters
    \cup SharedNamelist("CONTROL") \cup SharedNamelist("SYSTEM")

\* the tree of the example script, and a tree with nothing but the nscf
\* k-points
ExampleTree ==
  [scf |-> [kpoints |-> ScfKpoints], nscf |-> [kpoints |-> ScfKpoints],
   wannier90 |-> W90Required]

BaseTrees ==
  {Unshared(v) : v \in {ExampleTree, [nscf |-> [kpoints |-> ScfKpoints]]}}

\* inputs=None, or a tree; inputs is the nested contents of the tree at the
\* time of the call
CallWith(c, o, f, none, t) ==
  [codes |-> c, order |-> o, pseudo_family |-> f, inputs_is_none |-> none,
   inputs |-> IF none THEN EmptyDict ELSE Value(t.heap, t.root),
   heap |-> IF none THEN <<>> ELSE t.heap,
   root |-> IF none THEN 0 ELSE t.root]

\* a codes dictionary with an insertion order of its keys
CodesWithOrder ==
  UNION {{[codes |-> c, order |-> o] : o \in Orders(DOMAIN c)} :
           c \in CodesOptions \cup FaultyCodes}

\* Every tree is passed with resolvable codes, inserted as in the example,
\* and the family of the example; every codes dictionary in every
\* insertion order is passed with every family, with inputs=None and with
\* the trees of BaseTrees.
Arguments ==
  {CallWith(c, ExampleOrder, PseudoFamily, FALSE, t) :
     c \in CodesOptions, t \in HeapTrees}
    \cup {CallWith(x.codes, x.order, f, n, t) :
            x \in CodesWithOrder, f \in PseudoFamilies,
            n \in BOOLEAN, t \in BaseTrees}

(***************************************************************************)
(* Control flow                                                            *)
(***************************************************************************)
\* An order in which the graph object is created first.
Blocks_graph_first ==
  <<"graph", "codes", "scf", "nscf_kpoints", "nscf", "pw2wannier90", "wannier90",
    "add_scf", "add_nscf", "add_w90_pp", "add_pw2wan", "add_w90", "return">>

\* An order in which the scf task is added before the nscf k-points are checked.
Blocks_scf_task_first ==
  <<"codes", "scf", "graph", "add_scf", "nscf_kpoints", "nscf", "pw2wannier90",
    "wannier90", "add_nscf", "add_w90_pp", "add_pw2wan", "add_w90", "return">>

\* the statement blocks of the function body, in the order of the source
Blocks ==
  <<"codes", "scf", "nscf_kpoints", "nscf", "pw2wannier90", "wannier90", "graph",
    "add_scf", "add_nscf", "add_w90_pp", "add_pw2wan", "add_w90", "return">>

\* the position after block b: the next block, or "done" after the return
After(b) ==
  LET i == CHOOSE n \in 1..Len(Blocks) : Blocks[n] = b
  IN  IF i = Len(Blocks) THEN "done" ELSE Blocks[i + 1]

(***************************************************************************)
(* State                                                                   *)
(***************************************************************************)
VARIABLES
  pc,                   \* position in the body of minimal_w90_workgraph
  args,                 \* the arguments as the caller passed them
  codes,                \* the caller's codes dictionary
  inputs_is_none,       \* the name inputs is bound to None
  inputs,               \* the address of the dictionary inputs is bound to
  heap,                 \* the dictionary objects reachable from inputs
  scf_metadata, nscf_kpoints, nscf_metadata,
  pw2wannier_settings, pw2wannier90_params, pw2wan_metadata,
  w90_params, wannier90_metadata,
  explicit_calls,       \* calls of get_explicit_kpoints so far
  wg,                   \* the WorkGraph
  raised                \* the exception that ended the call

locals ==
  <<scf_metadata, nscf_kpoints, nscf_metadata, pw2wannier_settings,
    pw2wannier90_params, pw2wan_metadata, w90_params, wannier90_metadata>>

vars == <<pc, args, codes, inputs_is_none, inputs, heap, locals, explicit_calls, wg, raised>>

Init ==
  \E a \in Arguments :
    /\ pc = Blocks[1]
    /\ args = a
    /\ codes = a.codes
    /\ inputs_is_none = a.inputs_is_none
    /\ inputs = a.root
    /\ heap = a.heap
    /\ scf_metadata = EmptyDict
    /\ nscf_kpoints = NoKpoints
    /\ nscf_metadata = EmptyDict
    /\ pw2wannier_settings = EmptyDict
    /\ pw2wannier90_params = EmptyDict
    /\ pw2wan_metadata = EmptyDict
    /\ w90_params = EmptyDict
    /\ wannier90_metadata = EmptyDict
    /\ explicit_calls = 0
    /\ wg = NoGraph
    /\ raised = NoError

(***************************************************************************)
(* minimal_w90_workgraph, block by block                                   *)
(***************************************************************************)
\* the nested contents of inputs now
Tree == Value(heap, inputs)

\* the call ends with an exception
Raise(e) ==
  /\ pc' = "raised"
  /\ raised' = e

\* lines 37-42: codes are resolved in place, the pseudo family is loaded and
\* asked for the pseudopotentials of the structure
ResolveCodes ==
  /\ pc = "codes"
  /\ codes' = NormalizeCodes(codes, args.order)
  /\ IF LookupError(codes, args.order, args.pseudo_family) # NoError
     THEN Raise(LookupError(codes, args.order, args.pseudo_family))
     ELSE /\ pc' = After("codes")
          /\ UNCHANGED raised
  /\ UNCHANGED <<args, inputs_is_none, inputs, heap, locals, explicit_calls, wg>>

\* lines 60-87
SetupScf ==
  /\ pc = "scf"
  /\ inputs' = (IF inputs_is_none THEN Len(heap) + 1 ELSE inputs)
  /\ heap' = ScfDefaults(IF inputs_is_none THEN New(heap, EmptyDict) ELSE heap,
                         inputs')
  /\ inputs_is_none' = FALSE
  /\ scf_metadata' = MergeMetadata(metadata_default_mpi, Tree'["scf"])
  /\ pc' = After("scf")
  /\ UNCHANGED <<args, codes, nscf_kpoints, nscf_metadata, pw2wannier_settings,
                 pw2wannier90_params, pw2wan_metadata, w90_params,
                 wannier90_metadata, explicit_calls, wg, raised>>

\* lines 90-109: the nscf k-points are validated, then converted
ValidateNscfKpoints ==
  /\ pc = "nscf_kpoints"
  /\ IF NscfValidate(Tree) # NoError
     THEN /\ Raise(NscfValidate(Tree))
          /\ UNCHANGED <<nscf_kpoints, explicit_calls>>
     ELSE /\ nscf_kpoints' = get_explicit_kpoints(Tree["nscf"]["kpoints"])
          /\ explicit_calls' = explicit_calls + 1
          /\ pc' = After("nscf_kpoints")
          /\ UNCHANGED raised
  /\ UNCHANGED <<args, codes, inputs_is_none, inputs, heap, scf_metadata, nscf_metadata,
                 pw2wannier_settings, pw2wannier90_params, pw2wan_metadata,
                 w90_params, wannier90_metadata, wg>>

\* lines 111-128
SetupNscf ==
  /\ pc = "nscf"
  /\ inputs' = inputs
  /\ heap' = NscfDefaults(heap, inputs)
  /\ nscf_metadata' = MergeMetadata(metadata_default_mpi, Tree'["nscf"])
  /\ pc' = After("nscf")
  /\ UNCHANGED <<args, codes, inputs_is_none, scf_metadata, nscf_kpoints,
                 pw2wannier_settings, pw2wannier90_params, pw2wan_metadata,
                 w90_params, wannier90_metadata, explicit_calls, wg, raised>>

\* lines 130-152
SetupPw2wannier90 ==
  /\ pc = "pw2wannier90"
  /\ inputs' = inputs
  /\ heap' = Pw2wanDefaults(heap, inputs)
  /\ pw2wannier_settings' = Pw2wannierSettings(Get(Tree, "pw2wannier90", EmptyDict))
  /\ pw2wannier90_params' = Pw2wannier90Params(Tree'["pw2wannier90"])
  /\ pw2wan_metadata' = MergeMetadata(metadata_default_mpi, Tree'["pw2wannier90"])
  /\ pc' = After("pw2wannier90")
  /\ UNCHANGED <<args, codes, inputs_is_none, scf_metadata, nscf_kpoints,
                 nscf_metadata, w90_params, wannier90_metadata, explicit_calls,
                 wg, raised>>

\* lines 154-173
SetupWannier90 ==
  /\ pc = "wannier90"
  /\ inputs' = inputs
  /\ heap' = W90Defaults(heap, inputs)
  /\ w90_params' = W90Params(Tree')
  /\ wannier90_metadata' = MergeMetadata(metadata_default_no_mpi, Tree'["wannier90"])
  /\ pc' = After("wannier90")
  /\ UNCHANGED <<args, codes, inputs_is_none, scf_metadata, nscf_kpoints,
                 nscf_metadata, pw2wannier_settings, pw2wannier90_params,
                 pw2wan_metadata, explicit_calls, wg, raised>>

\* line 175
CreateGraph ==
  /\ pc = "graph"
  /\ wg' = NewGraph
  /\ pc' = After("graph")
  /\ UNCHANGED <<args, codes, inputs_is_none, inputs, heap, locals, explicit_calls, raised>>

\* lines 178-185
ScfTaskData ==
  [code |-> codes["pw"], structure |-> Structure, pseudos |-> Pseudos,
   parameters |-> Tree["scf"]["parameters"],
   kpoints |-> Tree["scf"]["kpoints"],
   metadata |-> scf_metadata]

\* the first lookup of lines 179-183 that fails
ScfKeyError ==
  IF CodeKeyError(codes, "pw", 179) # NoError THEN CodeKeyError(codes, "pw", 179)
  ELSE IF ~Has(Tree["scf"], "kpoints") THEN Error("KeyError", 183)
  ELSE NoError

\* lines 176-186: the task is added, then its inputs are looked up and set
AddScf ==
  /\ pc = "add_scf"
  /\ IF ScfKeyError # NoError
     THEN /\ wg' = add_task(wg, "PwCalculation", "scf")
          /\ Raise(ScfKeyError)
     ELSE /\ wg' = set_inputs(add_task(wg, "PwCalculation", "scf"), ScfTaskData, {})
          /\ pc' = After("add_scf")
          /\ UNCHANGED raised
  /\ UNCHANGED <<args, codes, inputs_is_none, inputs, heap, locals, explicit_calls>>

\* lines 190-198
NscfTaskData ==
  [code |-> codes["pw"], structure |-> Structure, pseudos |-> Pseudos,
   parameters |-> Tree["nscf"]["parameters"],
   kpoints |-> nscf_kpoints,
   metadata |-> nscf_metadata]

NscfTaskLinks == {Link("scf", "remote_folder", "nscf", "parent_folder")}

\* lines 188-199
AddNscf ==
  /\ pc = "add_nscf"
  /\ IF CodeKeyError(codes, "pw", 191) # NoError
     THEN /\ wg' = add_task(wg, "PwCalculation", "nscf")
          /\ Raise(CodeKeyError(codes, "pw", 191))
     ELSE /\ wg' = set_inputs(add_task(wg, "PwCalculation", "nscf"),
                              NscfTaskData, NscfTaskLinks)
          /\ pc' = After("add_nscf")
          /\ UNCHANGED raised
  /\ UNCHANGED <<args, codes, inputs_is_none, inputs, heap, locals, explicit_calls>>

\* line 211: the pre-processing task is given the serial template itself
W90ppMetadata == metadata_default_no_mpi

\* lines 203-212
W90ppTaskData ==
  [code |-> codes["wannier90"], structure |-> Structure,
   parameters |-> w90_params,
   kpoints |-> nscf_kpoints,
   kpoint_path |-> Tree["wannier90"]["kpoint_path"],
   projections |-> Tree["wannier90"]["projections"],
   settings |-> [postproc_setup |-> TRUE],
   metadata |-> W90ppMetadata]

\* the first lookup that fails when a wannier90 task is set: the code of
\* line 204 or 228, then the keys of the wannier90 section, lines 208-209
\* and 232-234
W90KeyError(code, first, second) ==
  IF CodeKeyError(codes, "wannier90", code) # NoError
  THEN CodeKeyError(codes, "wannier90", code)
  ELSE IF ~Has(Tree["wannier90"], "kpoint_path") THEN Error("KeyError", first)
  ELSE IF ~Has(Tree["wannier90"], "projections") THEN Error("KeyError", second)
  ELSE NoError

\* lines 201-213
AddW90pp ==
  /\ pc = "add_w90_pp"
  /\ IF W90KeyError(204, 208, 209) # NoError
     THEN /\ wg' = add_task(wg, "Wannier90Calculation", "w90_pp")
          /\ Raise(W90KeyError(204, 208, 209))
     ELSE /\ wg' = set_inputs(add_task(wg, "Wannier90Calculation", "w90_pp"),
                              W90ppTaskData, {})
          /\ pc' = After("add_w90_pp")
          /\ UNCHANGED raised
  /\ UNCHANGED <<args, codes, inputs_is_none, inputs, heap, locals, explicit_calls>>

\* lines 217-222
Pw2wanTaskData ==
  [code |-> codes["pw2wannier90"],
   parameters |-> pw2wannier90_params,
   settings |-> pw2wannier_settings,
   metadata |-> pw2wan_metadata]

Pw2wanTaskLinks ==
  {Link("nscf", "remote_folder", "pw2wan", "parent_folder"),
   Link("w90_pp", "nnkp_file", "pw2wan", "nnkp_file")}

\* lines 214-224
AddPw2wan ==
  /\ pc = "add_pw2wan"
  /\ IF CodeKeyError(codes, "pw2wannier90", 217) # NoError
     THEN /\ wg' = add_task(wg, "Pw2wannier90Calculation", "pw2wan")
          /\ Raise(CodeKeyError(codes, "pw2wannier90", 217))
     ELSE /\ wg' = set_inputs(add_task(wg, "Pw2wannier90Calculation", "pw2wan"),
                              Pw2wanTaskData, Pw2wanTaskLinks)
          /\ pc' = After("add_pw2wan")
          /\ UNCHANGED raised
  /\ UNCHANGED <<args, codes, inputs_is_none, inputs, heap, locals, explicit_calls>>

\* lines 228-235
W90TaskData ==
  [code |-> codes["wannier90"], structure |-> Structure,
   parameters |-> w90_params,
   kpoints |-> nscf_kpoints,
   kpoint_path |-> Tree["wannier90"]["kpoint_path"],
   projections |-> Tree["wannier90"]["projections"],
   metadata |-> wannier90_metadata]

W90TaskLinks == {Link("pw2wan", "remote_folder", "w90", "remote_input_folder")}

\* lines 225-237
AddW90 ==
  /\ pc = "add_w90"
  /\ IF W90KeyError(228, 232, 234) # NoError
     THEN /\ wg' = add_task(wg, "Wannier90Calculation", "w90")
          /\ Raise(W90KeyError(228, 232, 234))
     ELSE /\ wg' = set_inputs(add_task(wg, "Wannier90Calculation", "w90"),
                              W90TaskData, W90TaskLinks)
          /\ pc' = After("add_w90")
          /\ UNCHANGED raised
  /\ UNCHANGED <<args, codes, inputs_is_none, inputs, heap, locals, explicit_calls>>

\* line 238
Return ==
  /\ pc = "return"
  /\ pc' = After("return")
  /\ UNCHANGED <<args, codes, inputs_is_none, inputs, heap, locals, explicit_calls, wg, raised>>

Next ==
  \/ ResolveCodes
  \/ SetupScf
  \/ ValidateNscfKpoints
  \/ SetupNscf
  \/ SetupPw2wannier90
  \/ SetupWannier90
  \/ CreateGraph
  \/ AddScf
  \/ AddNscf
  \/ AddW90pp
  \/ AddPw2wan
  \/ AddW90
  \/ Return

Spec == Init /\ [][Next]_vars

(***************************************************************************)
(* Vocabulary of the properties                                            *)
(***************************************************************************)
Range(seq) == {seq[i] : i \in 1..Len(seq)}

\* the task called name is in the graph and its inputs have been set
HasInputs(name) ==
  /\ name \in TaskNames(wg)
  /\ DOMAIN TaskInputs(wg, name) # {}

\* what the caller passed under a section, {} when it passed none
ArgSection(name) == Get(args.inputs, name, EmptyDict)

ArgParameters(name) == Get(ArgSection(name), "parameters", EmptyDict)

ArgMetadata(name) == Get(ArgSection(name), "metadata", EmptyDict)

\* the caller passed no nscf k-points at all
LacksNscfKpoints == ~Has(ArgSection("nscf"), "kpoints")

\* the caller's nscf k-points are an unshifted mesh
UnshiftedMesh ==
  /\ ~LacksNscfKpoints
  /\ ArgSection("nscf")["kpoints"].kind = "mesh"
  /\ \A i \in 1..3 : ArgSection("nscf")["kpoints"].offset[i] = 0

\* the caller's nscf k-points are an explicit list
ExplicitList ==
  /\ ~LacksNscfKpoints
  /\ ArgSection("nscf")["kpoints"].kind = "list"

\* the caller's nscf k-points are a mesh shifted along at least one axis
ShiftedMesh ==
  /\ ~LacksNscfKpoints
  /\ ArgSection("nscf")["kpoints"].kind = "mesh"
  /\ \E i \in 1..3 : ArgSection("nscf")["kpoints"].offset[i] # 0

\* the caller's nscf k-points have neither a mesh nor a list set
EmptyKpoints ==
  /\ ~LacksNscfKpoints
  /\ ArgSection("nscf")["kpoints"].kind = "empty"

\* the exception the resolution of the caller's codes and pseudopotential
\* family raises, NoError when they resolve
ArgLookupError == LookupError(args.codes, args.order, args.pseudo_family)

\* the source lines of the lookups of codes and pseudopotentials
LookupLines == {39, 41, 42}

LookupFailed == pc = "raised" /\ raised.line \in LookupLines

\* the source lines of the three nscf k-point validation failures
ValidationLines == {90, 93, 99, 104}

ValidationFailed == pc = "raised" /\ raised.line \in ValidationLines

FiveNames == <<"scf", "nscf", "w90_pp", "pw2wan", "w90">>

ExpectedLinks ==
  {Link("scf", "remote_folder", "nscf", "parent_folder"),
   Link("nscf", "remote_folder", "pw2wan", "parent_folder"),
   Link("w90_pp", "nnkp_file", "pw2wan", "nnkp_file"),
   Link("pw2wan", "remote_folder", "w90", "remote_input_folder")}

NamesInOrder(g) == [i \in 1..Len(g.tasks) |-> g.tasks[i].name]

Succ(g, S) == {l.to : l \in {x \in g.links : x.from \in S}}

RECURSIVE ReachIn(_, _, _)
ReachIn(g, S, k) ==
  IF k = 0 THEN {} ELSE Succ(g, S) \cup ReachIn(g, Succ(g, S), k - 1)

Acyclic(g) ==
  \A n \in TaskNames(g) : n \notin ReachIn(g, {n}, Len(g.tasks))

(***************************************************************************)
(* C1. A returned graph has exactly the five tasks scf, nscf, w90_pp,      *)
(* pw2wan, w90 and exactly the four links scf.remote_folder ->             *)
(* nscf.parent_folder, nscf.remote_folder -> pw2wan.parent_folder,         *)
(* w90_pp.nnkp_file -> pw2wan.nnkp_file, pw2wan.remote_folder ->           *)
(* w90.remote_input_folder, whatever the inputs; w90_pp has no upstream    *)
(* task, the links are acyclic, and without a wannier90 parameter override *)
(* the mp_grid of the w90 task is the mesh of the nscf k-points.           *)
(***************************************************************************)
C1_GraphShape ==
  pc = "done" =>
    /\ NamesInOrder(wg) = FiveNames
    /\ wg.links = ExpectedLinks
    /\ ~\E l \in wg.links : l.to = "w90_pp"
    /\ Acyclic(wg)
    /\ ~Has(ArgSection("wannier90"), "parameters") =>
         TaskInputs(wg, "w90").parameters.mp_grid = ArgSection("nscf")["kpoints"].mesh

C1_Witness ==
  /\ pc = "done"
  /\ ~Has(ArgSection("wannier90"), "parameters")
  /\ ArgSection("nscf")["kpoints"].mesh = <<2, 2, 2>>
  /\ TaskInputs(wg, "w90").parameters.mp_grid = <<2, 2, 2>>
  /\ Cardinality(wg.links) = 4

(***************************************************************************)
(* C2. When the inputs are None, have no nscf section, or the nscf section *)
(* has no kpoints entry, the call raises and never returns: the exception  *)
(* of the lookups of lines 39-42 when the codes or the pseudopotentials do *)
(* not resolve, else the assertion of line 90 or of line 93; no graph      *)
(* object exists and no task has been added at any point of such a call.   *)
(***************************************************************************)
C2_MissingNscfKpointsFailsEarly ==
  LacksNscfKpoints =>
    /\ pc # "done"
    /\ ~wg.created
    /\ Len(wg.tasks) = 0
    /\ pc = "raised" =>
         raised = IF ArgLookupError # NoError THEN ArgLookupError
                  ELSE IF Has(args.inputs, "nscf") THEN Error("AssertionError", 93)
                  ELSE Error("AssertionError", 90)
    /\ pc \notin {"done", "raised"} => ENABLED Next

C2_Witness ==
  /\ args.inputs_is_none
  /\ pc = "raised"
  /\ raised = Error("AssertionError", 90)
  /\ wg = NoGraph

(***************************************************************************)
(* C3. When the nscf k-points are an explicit list, a mesh whose shift is  *)
(* nonzero along at least one axis, or a node with neither set, the call   *)
(* raises, get_explicit_kpoints is never run and no graph is returned.     *)
(* The exception is that of the lookups of lines 39-42 when the codes or   *)
(* the pseudopotentials do not resolve, else ValueError for the list, the  *)
(* assertion of line 104 for the shift and the AttributeError of           *)
(* get_kpoints_mesh at line 104 for the node with neither.  An unshifted   *)
(* mesh passes the validation and is converted.                            *)
(***************************************************************************)
C3_NotUnshiftedMeshRejected ==
  /\ (ExplicitList \/ ShiftedMesh \/ EmptyKpoints) =>
       /\ explicit_calls = 0
       /\ nscf_kpoints = NoKpoints
       /\ pc # "done"
       /\ ~wg.created
       /\ pc = "raised" =>
            raised = IF ArgLookupError # NoError THEN ArgLookupError
                     ELSE IF ExplicitList THEN Error("ValueError", 99)
                     ELSE IF ShiftedMesh THEN Error("AssertionError", 104)
                     ELSE Error("AttributeError", 104)
       /\ pc \notin {"done", "raised"} => ENABLED Next
  /\ UnshiftedMesh =>
       /\ ~ValidationFailed
       /\ pc \in {"nscf", "done"} => explicit_calls = 1

C3_Witness ==
  /\ ShiftedMesh
  /\ ArgSection("nscf")["kpoints"].offset = <<0, 0, 1>>
  /\ pc = "raised"
  /\ raised = Error("AssertionError", 104)
  /\ explicit_calls = 0

(***************************************************************************)
(* C4. For an unshifted nscf mesh of dimensions (n1, n2, n3) the tasks     *)
(* nscf, w90_pp and w90 are all given the one explicit list that           *)
(* get_explicit_kpoints produced, of n1*n2*n3 points; none of them is      *)
(* given the mesh descriptor.                                              *)
(***************************************************************************)
C4_ExplicitKpointsEverywhere ==
  \A n \in {"nscf", "w90_pp", "w90"} :
    HasInputs(n) =>
      LET given == TaskInputs(wg, n).kpoints
          mesh == ArgSection("nscf")["kpoints"].mesh
      IN  /\ UnshiftedMesh
          /\ given.kind = "list"
          /\ given # ArgSection("nscf")["kpoints"]
          /\ Len(given.points) = mesh[1] * mesh[2] * mesh[3]
          /\ given = nscf_kpoints
          /\ explicit_calls = 1

C4_Witness ==
  /\ pc = "done"
  /\ ArgSection("nscf")["kpoints"].mesh = <<2, 1, 2>>
  /\ Len(TaskInputs(wg, "w90").kpoints.points) = 4
  /\ TaskInputs(wg, "w90_pp").kpoints = TaskInputs(wg, "nscf").kpoints

(***************************************************************************)
(* C5. When the caller supplies scf SYSTEM parameters and no nscf SYSTEM   *)
(* parameters, the parameters of the nscf task have a SYSTEM section equal *)
(* to the SYSTEM section of the scf task.                                  *)
(***************************************************************************)
C5_NscfInheritsScfSystem ==
  (/\ HasInputs("scf")
   /\ HasInputs("nscf")
   /\ Has(ArgParameters("scf"), "SYSTEM")
   /\ ~Has(ArgParameters("nscf"), "SYSTEM")) =>
    /\ Has(TaskInputs(wg, "nscf").parameters, "SYSTEM")
    /\ TaskInputs(wg, "nscf").parameters["SYSTEM"] =
         TaskInputs(wg, "scf").parameters["SYSTEM"]

(***************************************************************************)
(* C6. In the parameters of the scf task a SYSTEM.ecutwfc the caller       *)
(* supplied is unchanged, a SYSTEM.ecutrho the caller supplied is          *)
(* unchanged, and when the caller supplied neither they are 30 and 240.    *)
(***************************************************************************)
C6_ScfCutoffsDefaultedOnlyIfUnset ==
  HasInputs("scf") =>
    LET given == Get(ArgParameters("scf"), "SYSTEM", EmptyDict)
        bound == TaskInputs(wg, "scf").parameters["SYSTEM"]
    IN  /\ Has(given, "ecutwfc") => bound["ecutwfc"] = given["ecutwfc"]
        /\ Has(given, "ecutrho") => bound["ecutrho"] = given["ecutrho"]
        /\ (~Has(given, "ecutwfc") /\ ~Has(given, "ecutrho")) =>
             (bound["ecutwfc"] = 30 /\ bound["ecutrho"] = 240)

(***************************************************************************)
(* C7. The ADDITIONAL_RETRIEVE_LIST of the settings of the pw2wan task     *)
(* contains *.amn, *.mmn and *.eig, and every entry of the list the caller *)
(* supplied is still in it.                                                *)
(***************************************************************************)
C7_RetrieveListMerged ==
  HasInputs("pw2wan") =>
    LET supplied == Get(Get(ArgSection("pw2wannier90"), "settings", EmptyDict),
                        "ADDITIONAL_RETRIEVE_LIST", <<>>)
        bound == TaskInputs(wg, "pw2wan").settings["ADDITIONAL_RETRIEVE_LIST"]
    IN  /\ {"*.amn", "*.mmn", "*.eig"} \subseteq Range(bound)
        /\ Range(supplied) \subseteq Range(bound)

(***************************************************************************)
(* C8. The metadata of each of the tasks scf, nscf (multi-node MPI         *)
(* template) and w90_pp, w90 (single-node serial template) is the template *)
(* of its stage with every entry of the metadata the caller supplied for   *)
(* that stage in place of the template's entry.                            *)
(***************************************************************************)
StageOf(name) == IF name \in {"w90_pp", "w90"} THEN "wannier90" ELSE name

TemplateOf(name) ==
  IF name \in {"w90_pp", "w90"} THEN metadata_default_no_mpi ELSE metadata_default_mpi

C8_MetadataOverriddenPerStage ==
  \A n \in {"scf", "nscf", "w90_pp", "w90"} :
    HasInputs(n) =>
      LET supplied == ArgMetadata(StageOf(n))
          bound == TaskInputs(wg, n).metadata
      IN  /\ DOMAIN bound = (DOMAIN TemplateOf(n)) \cup (DOMAIN supplied)
          /\ \A k \in DOMAIN supplied : bound[k] = supplied[k]
          /\ \A k \in (DOMAIN TemplateOf(n)) \ (DOMAIN supplied) :
               bound[k] = TemplateOf(n)[k]

(***************************************************************************)
(* C9. As stated: the only exceptions are the three nscf k-point           *)
(* validation failures, no task has been added when one is raised, and a   *)
(* call whose nscf k-points are an unshifted mesh never raises.            *)
(***************************************************************************)
C9_OnlyValidationFailures ==
  /\ pc = "raised" => (raised.line \in ValidationLines /\ Len(wg.tasks) = 0)
  /\ UnshiftedMesh => pc # "raised"

\* the entries the task inputs look up without a default
RequiredEntriesGiven ==
  /\ Roles \subseteq DOMAIN args.codes
  /\ Has(ArgSection("scf"), "kpoints")
  /\ Has(ArgSection("wannier90"), "kpoint_path")
  /\ Has(ArgSection("wannier90"), "projections")

\* the source lines of the lookups of a task's inputs that can fail
TaskLookupLines == {179, 183, 204, 208, 209, 217}

(***************************************************************************)
(* C9, amended. The exceptions of graph construction are these.  Raised    *)
(* before the graph object exists: that of orm.load_code for a code label  *)
(* the database lacks (line 39), of orm.load_group for an unknown family   *)
(* (line 41), of get_pseudos for a family that lacks an element (line 42), *)
(* and, when these lookups succeed, the nscf k-point validation failures   *)
(* of lines 90-104 for nscf k-points that are not an unshifted mesh.       *)
(* Raised after the task being set up was added, the graph not being       *)
(* returned: the KeyError of a lookup of an entry the caller did not       *)
(* supply, which is the code of a role (pw at line 179, wannier90 at 204,  *)
(* pw2wannier90 at 217), the scf kpoints (line 183) or the wannier90       *)
(* kpoint_path or projections (lines 208, 209).  A call whose codes and    *)
(* pseudopotentials resolve, whose nscf k-points are an unshifted mesh and *)
(* which supplies the three codes and these three entries never raises,    *)
(* whatever else is absent, and a returned graph has all five tasks with   *)
(* their inputs set.                                                       *)
(***************************************************************************)
C9_FailuresAndDefaults ==
  /\ pc = "raised" =>
       raised.line \in LookupLines \cup ValidationLines \cup TaskLookupLines
  /\ ArgLookupError # NoError =>
       /\ pc \in {Blocks[1], "raised"}
       /\ pc = "raised" => raised = ArgLookupError
       /\ wg = NoGraph
  /\ LookupFailed => (raised = ArgLookupError /\ ArgLookupError # NoError)
  /\ ValidationFailed =>
       /\ ~wg.created /\ Len(wg.tasks) = 0
       /\ ~UnshiftedMesh
       /\ ArgLookupError = NoError
  /\ (pc = "raised" /\ raised.line \in TaskLookupLines) =>
       /\ UnshiftedMesh
       /\ ArgLookupError = NoError
       /\ raised.type = "KeyError"
       /\ wg.created
       /\ raised.line = 179 => ("pw" \notin DOMAIN args.codes
                                 /\ NamesInOrder(wg) = <<"scf">>)
       /\ raised.line = 183 => (~Has(ArgSection("scf"), "kpoints")
                                 /\ NamesInOrder(wg) = <<"scf">>)
       /\ raised.line = 204 => ("wannier90" \notin DOMAIN args.codes
                                 /\ NamesInOrder(wg) = <<"scf", "nscf", "w90_pp">>)
       /\ raised.line = 208 => (~Has(ArgSection("wannier90"), "kpoint_path")
                                 /\ NamesInOrder(wg) = <<"scf", "nscf", "w90_pp">>)
       /\ raised.line = 209 => (~Has(ArgSection("wannier90"), "projections")
                                 /\ NamesInOrder(wg) = <<"scf", "nscf", "w90_pp">>)
       /\ raised.line = 217 =>
            /\ "pw2wannier90" \notin DOMAIN args.codes
            /\ NamesInOrder(wg) = <<"scf", "nscf", "w90_pp", "pw2wan">>
  /\ (ArgLookupError = NoError /\ UnshiftedMesh /\ RequiredEntriesGiven) =>
       pc # "raised"
  /\ pc = "done" =>
       /\ ArgLookupError = NoError /\ UnshiftedMesh /\ RequiredEntriesGiven
       /\ NamesInOrder(wg) = FiveNames
       /\ \A n \in Range(FiveNames) : HasInputs(n)
  /\ pc \notin {"done", "raised"} => ENABLED Next

C9_Witness ==
  /\ pc = "done"
  /\ DOMAIN args.inputs = {"scf", "nscf", "wannier90"}
  /\ DOMAIN args.inputs["scf"] = {"kpoints"}
  /\ DOMAIN args.inputs["nscf"] = {"kpoints"}
  /\ DOMAIN args.inputs["wannier90"] = {"kpoint_path", "projections"}
  /\ \A n \in Range(FiveNames) : HasInputs(n)

(***************************************************************************)
(* C10. As stated: when the caller passed an inputs dictionary and the     *)
(* call raises on the nscf k-point validation, every entry of the caller's *)
(* codes is the resolved code object, inputs['scf']['parameters'] holds    *)
(* CONTROL.calculation = 'scf' and SYSTEM.ecutwfc and SYSTEM.ecutrho, and  *)
(* the nscf, pw2wannier90 and wannier90 sections of inputs are as the      *)
(* caller passed them.                                                     *)
(***************************************************************************)
C10_StateAtValidationFailure ==
  (ValidationFailed /\ ~args.inputs_is_none) =>
    /\ \A r \in DOMAIN args.codes :
         /\ ~IsStr(codes[r])
         /\ codes[r] = CodeObj(args.codes[r].label)
    /\ Has(Tree, "scf")
    /\ Has(Tree["scf"], "parameters")
    /\ Has(Tree["scf"]["parameters"], "CONTROL")
    /\ Has(Tree["scf"]["parameters"], "SYSTEM")
    /\ Get(Tree["scf"]["parameters"]["CONTROL"], "calculation", "") = "scf"
    /\ {"ecutwfc", "ecutrho"} \subseteq DOMAIN Tree["scf"]["parameters"]["SYSTEM"]
    /\ \A x \in {"nscf", "pw2wannier90", "wannier90"} :
         /\ Has(Tree, x) <=> Has(args.inputs, x)
         /\ Has(Tree, x) => Tree[x] = args.inputs[x]

\* the dictionary objects of section x of the tree the caller passed
ArgObjects(x) ==
  IF Has(args.heap[args.root], x)
  THEN Objects(args.heap, args.heap[args.root][x])
  ELSE {}

\* section x of the caller's tree has a dictionary object in common with
\* the scf section
SharesWithScf(x) == ArgObjects(x) \cap ArgObjects("scf") # {}

(***************************************************************************)
(* C10, amended. When the caller passed an inputs dictionary and the call  *)
(* raises on the nscf k-point validation, every entry of the caller's      *)
(* codes is the resolved code object and inputs['scf']['parameters'] holds *)
(* CONTROL.calculation = 'scf' and SYSTEM.ecutwfc and SYSTEM.ecutrho.  The *)
(* nscf, pw2wannier90 and wannier90 keys of inputs are bound to the        *)
(* dictionary objects the caller bound them to, and each of these sections *)
(* that has no dictionary object in common with the scf section has the    *)
(* contents the caller passed.  A section that is the scf section itself   *)
(* has the contents of the defaulted scf section.                          *)
(***************************************************************************)
C10_UnsharedSectionsAtValidationFailure ==
  (ValidationFailed /\ ~args.inputs_is_none) =>
    /\ \A r \in DOMAIN args.codes :
         /\ ~IsStr(codes[r])
         /\ codes[r] = CodeObj(args.codes[r].label)
    /\ Has(Tree, "scf")
    /\ Has(Tree["scf"], "parameters")
    /\ Has(Tree["scf"]["parameters"], "CONTROL")
    /\ Has(Tree["scf"]["parameters"], "SYSTEM")
    /\ Get(Tree["scf"]["parameters"]["CONTROL"], "calculation", "") = "scf"
    /\ {"ecutwfc", "ecutrho"} \subseteq DOMAIN Tree["scf"]["parameters"]["SYSTEM"]
    /\ \A x \in {"nscf", "pw2wannier90", "wannier90"} :
         /\ Has(Tree, x) <=> Has(args.inputs, x)
         /\ Has(Tree, x) =>
              /\ heap[inputs][x] = args.heap[args.root][x]
              /\ ~SharesWithScf(x) => Tree[x] = args.inputs[x]
              /\ heap[inputs][x] = heap[inputs]["scf"] => Tree[x] = Tree["scf"]

\* a shifted nscf mesh in a section of its own, beside a caller's scf
\* section whose parameters the defaults have been written into
C10_Witness ==
  /\ ValidationFailed
  /\ ~args.inputs_is_none
  /\ raised.line = 104
  /\ \E r \in DOMAIN args.codes : IsStr(args.codes[r])
  /\ codes # args.codes
  /\ Has(args.inputs, "scf")
  /\ Has(args.inputs, "nscf")
  /\ Has(args.inputs["nscf"], "parameters")
  /\ ~SharesWithScf("nscf")
  /\ Tree["scf"] # args.inputs["scf"]
  /\ Tree["nscf"] = args.inputs["nscf"]

====
